---------------------------- MODULE Spec2Model ----------------------------
(* Model of app/grocy/client.py (class GrocyClient).                        *)
(*                                                                          *)
(* The client is synchronous and holds no mutable state between calls, so   *)
(* every public method is one action.  An action picks the arguments and    *)
(* the answers the HTTP transport gives to each request the method may      *)
(* issue, runs the method's code and records the call: which method, its    *)
(* arguments, the requests it issued (with the answer each got), the number *)
(* of logger.error calls and how the call ended (a returned value or an     *)
(* exception that reached the caller).  The client keeps nothing from one   *)
(* call to the next (client.py 35-47 set the only fields, never written     *)
(* again), so a behaviour is one call on a constructed client.              *)
EXTENDS Integers, Sequences, FiniteSets, TLC

VARIABLES op, args, result, requests, errors

vars == <<op, args, result, requests, errors>>

----------------------------------------------------------------------------
(* Bounds of the model                                                      *)

MaxLen == 12       \* longest barcode string given to the barcode functions
MaxTable == 2      \* longest quantity-unit conversion table
MaxProducts == 2   \* longest product list the remote system answers with

----------------------------------------------------------------------------
(* Python values.  A str is a sequence of characters; every other value is  *)
(* a record tagged with its Python type.                                    *)

PyNone == [t |-> "None"]
PyStr(s) == [t |-> "str", v |-> s]
PyNum(n) == [t |-> "num", v |-> n]
PyList(s) == [t |-> "list", v |-> s]
PyDict(d) == [t |-> "dict", v |-> d]
EmptyDict == PyDict(<<>>)

\* how a call ends
Return(v) == [kind |-> "return", val |-> v]
Raise(e) == [kind |-> "raise", val |-> [t |-> "exc", v |-> e]]

\* Python truthiness, as used by `x or y` and `if x`
Truthy(x) ==
    CASE x.t = "None" -> FALSE
      [] x.t = "list" -> Len(x.v) > 0
      [] x.t = "dict" -> DOMAIN x.v # {}
      [] x.t = "str"  -> Len(x.v) > 0
      [] x.t = "num"  -> x.v # 0
      [] OTHER -> TRUE

\* `x or y`
PyOr(x, y) == IF Truthy(x) THEN x ELSE y

----------------------------------------------------------------------------
(* Characters.  Besides the ASCII digits and a letter the model has the two *)
(* kinds of non-ASCII character for which str.isdigit() is true:            *)
(*   "U+0663" ARABIC-INDIC DIGIT THREE, a decimal digit (category Nd):      *)
(*            int() accepts it, with value 3;                               *)
(*   "U+00B2" SUPERSCRIPT TWO (category No): str.isdigit() is true but      *)
(*            int() raises ValueError.                                      *)

AsciiDigits == <<"0", "1", "2", "3", "4", "5", "6", "7", "8", "9">>
AsciiDigitSet == {AsciiDigits[i] : i \in 1..10}
ArabicThree == "U+0663"
SuperTwo == "U+00B2"
Letter == "a"
Chars == AsciiDigitSet \cup {ArabicThree, SuperTwo, Letter}

\* characters of Unicode category Nd (decimal digits)
DecimalChars == AsciiDigitSet \cup {ArabicThree}

\* str.isdigit() of a one-character string
char_isdigit(c) == c \in DecimalChars \cup {SuperTwo}

\* str.isdigit(): true iff the string is non-empty and all characters are digits
isdigit(s) == Len(s) > 0 /\ \A i \in 1..Len(s) : char_isdigit(s[i])

\* int(c) is defined exactly on the decimal digits
int_ok(c) == c \in DecimalChars
int(c) == IF c = ArabicThree THEN 3
          ELSE (CHOOSE i \in 1..10 : AsciiDigits[i] = c) - 1

\* str(n) for 0 <= n <= 9
str(n) == <<AsciiDigits[n + 1]>>

----------------------------------------------------------------------------
(* Barcode normalization (client.py 409-460)                                *)

RECURSIVE weighted_sum(_, _)
\* sum(int(digit) * (3 if i % 2 == 0 else 1) for i, digit in enumerate(code))
\* over the first n characters; the character at 1-based position n has the
\* 0-based index n - 1
weighted_sum(code, n) ==
    IF n = 0 THEN 0
    ELSE weighted_sum(code, n - 1)
         + int(code[n]) * (IF (n - 1) % 2 = 0 THEN 3 ELSE 1)

\* calculate_upc_check_digit without the final complement to 10
calculate_upc_check_digit_no_complement(code11) ==
    IF Len(code11) # 11 \/ ~isdigit(code11)
    THEN Raise("ValueError")
    ELSE IF \E i \in 1..Len(code11) : ~int_ok(code11[i])
         THEN Raise("ValueError")
         ELSE Return(PyStr(str(weighted_sum(code11, 11) % 10)))

\* calculate_upc_check_digit without the length test
calculate_upc_check_digit_any_length(code11) ==
    IF ~isdigit(code11)
    THEN Raise("ValueError")
    ELSE IF \E i \in 1..Len(code11) : ~int_ok(code11[i])
         THEN Raise("ValueError")
         ELSE Return(PyStr(str((10 - (weighted_sum(code11, Len(code11)) % 10)) % 10)))

calculate_upc_check_digit(code11) ==
    IF Len(code11) # 11 \/ ~isdigit(code11)
    THEN Raise("ValueError")
    ELSE IF \E i \in 1..Len(code11) : ~int_ok(code11[i])
         THEN Raise("ValueError")          \* int(digit) fails inside sum()
         ELSE Return(PyStr(str((10 - (weighted_sum(code11, 11) % 10)) % 10)))

\* build_upc_from_receipt computing the check digit with the zero appended
\* to the receipt code instead of prepended
build_upc_from_receipt_zero_appended(receipt_code) ==
    IF Len(receipt_code) # 10 \/ ~isdigit(receipt_code)
    THEN Raise("ValueError")
    ELSE LET base_code == <<"0">> \o receipt_code
             check == calculate_upc_check_digit(receipt_code \o <<"0">>)
         IN  IF check.kind = "raise" THEN check
             ELSE Return(PyStr(base_code \o check.val.v))

build_upc_from_receipt(receipt_code) ==
    IF Len(receipt_code) # 10 \/ ~isdigit(receipt_code)
    THEN Raise("ValueError")
    ELSE LET base_code == <<"0">> \o receipt_code
             check == calculate_upc_check_digit(base_code)
         IN  IF check.kind = "raise" THEN check
             ELSE Return(PyStr(base_code \o check.val.v))

normalize_receipt_barcode(receipt_code) ==
    IF Len(receipt_code) = 10 /\ isdigit(receipt_code)
    THEN build_upc_from_receipt(receipt_code)
    ELSE Return(PyStr(receipt_code))

----------------------------------------------------------------------------
(* Barcode strings given to the barcode functions: the UPC-A reference      *)
(* vector 036000291452 (repeated as needed, read from its first or from its *)
(* second digit), cut to any length up to MaxLen, with one position         *)
(* overwritten by any character.                                            *)

Reference == <<"0", "3", "6", "0", "0", "0", "2", "9", "1", "4", "5", "2">>

BarcodeString(n, from, i, c) ==
    [k \in 1..n |-> IF k = i THEN c ELSE Reference[((k - 1 + from) % 12) + 1]]

BarcodeStrings ==
    {BarcodeString(n, from, i, c) :
        n \in 0..MaxLen, from \in 0..1, i \in 1..MaxLen, c \in Chars}

----------------------------------------------------------------------------
(* The HTTP transport (the requests library).  An answer is a status and a  *)
(* body; status 0 stands for "no answer": requests.get / requests.post      *)
(* raised (connection refused, timeout, ...).  The body is the JSON value   *)
(* response.json() parses, or Malformed when response.json() raises.        *)

Malformed == [t |-> "malformed"]
NoAnswer == [status |-> 0, body |-> Malformed]
Answer(status, body) == [status |-> status, body |-> body]

\* requests.get / requests.post raise
send_raises(r) == r.status = 0
\* response.raise_for_status() raises for 4xx and 5xx
raise_for_status_raises(r) == r.status >= 400 /\ r.status < 600
\* response.json() raises
json_raises(r) == r.body.t = "malformed"

Request(method, url, data, r) ==
    [method |-> method, url |-> url, data |-> data, resp |-> r]

\* what a method did: how it ended, the requests it issued, in order, and
\* the number of logger.error calls
Outcome(res, reqs, errs) == [res |-> res, reqs |-> reqs, errs |-> errs]

\* dict.get(key) and `key in dict`
dict_has(d, key) == key \in DOMAIN d.v
dict_get(d, key) == IF dict_has(d, key) THEN d.v[key] ELSE PyNone

\* ==, on the values the client compares (numbers and strings)
PyEq(x, y) == x.t = y.t /\ (x.t = "None" \/ x.v = y.v)

\* The body shared by the read methods:
\*     try:
\*         response = requests.get(url, headers=self.headers)
\*         response.raise_for_status()
\*         return response.json() [or <default>]
\*     except Exception as e:
\*         logger.error(...)
\*         return <sentinel>
\* has_or says whether the return statement has the `or <default>` part.
try_get(url, r, has_or, default, sentinel) ==
    LET reqs == <<Request("GET", url, PyNone, r)>>
    IN  IF send_raises(r) \/ raise_for_status_raises(r) \/ json_raises(r)
        THEN Outcome(Return(sentinel), reqs, 1)
        ELSE Outcome(Return(IF has_or THEN PyOr(r.body, default) ELSE r.body), reqs, 0)

find_product_by_barcode(barcode, r) ==
    try_get(<<"stock/products/by-barcode", barcode>>, r, TRUE, PyNone, PyNone)

products_for_group(product_group_id, r) ==
    try_get(<<"objects/products?product_group_id", product_group_id>>, r,
            TRUE, PyList(<<>>), PyList(<<>>))

get_product_categories(r) ==
    try_get(<<"objects/product_groups">>, r, FALSE, PyNone, PyList(<<>>))

get_locations(r) ==
    try_get(<<"objects/locations">>, r, FALSE, PyNone, PyList(<<>>))

get_quantity_units(r) ==
    try_get(<<"objects/quantity_units">>, r, FALSE, PyNone, PyList(<<>>))

get_shopping_locations(r) ==
    try_get(<<"objects/shopping_locations">>, r, FALSE, PyNone, PyList(<<>>))

external_lookup(barcode, r) ==
    try_get(<<"stock/barcodes/external-lookup", barcode>>, r, FALSE, PyNone, EmptyDict)

get_product(product_id, r) ==
    try_get(<<"objects/products", product_id>>, r, FALSE, PyNone, PyNone)

get_product_details(product_id, r) ==
    try_get(<<"stock/products", product_id>>, r, FALSE, PyNone, PyNone)

get_all_products(r) ==
    try_get(<<"objects/products">>, r, FALSE, PyNone, PyNone)

get_quantity_unit_conversions(r) ==
    try_get(<<"objects/quantity_unit_conversions">>, r, FALSE, PyNone, PyList(<<>>))

RECURSIVE first_named(_, _, _)
\* next((p for p in products if p.get('name') == product_name), None) over
\* the items from the i-th on; an item without a get method raises
first_named(items, product_name, i) ==
    IF i > Len(items) THEN Return(PyNone)
    ELSE IF items[i].t # "dict" THEN Raise("AttributeError")
    ELSE IF PyEq(dict_get(items[i], "name"), PyStr(product_name)) THEN Return(items[i])
    ELSE first_named(items, product_name, i + 1)

get_product_by_name(product_name, r) ==
    LET all == get_all_products(r)
        products == all.res.val
        found == CASE products.t = "list" -> first_named(products.v, product_name, 1)
                   [] products.t = "dict" ->     \* iterates over the keys, which are str
                        IF DOMAIN products.v = {} THEN Return(PyNone)
                        ELSE Raise("AttributeError")
                   [] OTHER -> Raise("TypeError")   \* None is not iterable
    IN  Outcome(found, all.reqs, all.errs)

----------------------------------------------------------------------------
(* Write methods and unit conversion                                        *)

\* dict.get(key, default) on an argument dict (a record of plain values)
arg_get(d, key, default) == IF key \in DOMAIN d THEN d[key] ELSE default

\* str(e): the text of an exception, kept as the exception's type
exc_text(e) == PyStr(<<e>>)

\* the exception the try block of a request raises, if any
transport_exc(r) ==
    IF send_raises(r) THEN "ConnectionError"
    ELSE IF raise_for_status_raises(r) THEN "HTTPError"
    ELSE "JSONDecodeError"

add_barcode_to_product(product_id, barcode, assignments, r) ==
    LET standardized_barcode == normalize_receipt_barcode(barcode)
    IN  IF standardized_barcode.kind = "raise"
        THEN Outcome(standardized_barcode, <<>>, 0)
        ELSE
        LET grocy_barcode ==
                [shopping_location_id |-> arg_get(assignments, "shopping_location_id", PyStr(<<>>)),
                 note |-> arg_get(assignments, "note", PyStr(<<>>)),
                 barcode |-> standardized_barcode.val,
                 product_id |-> product_id,
                 amount |-> arg_get(assignments, "display_amount", PyNum(1))]
            reqs == <<Request("POST", <<"objects/product_barcodes">>, grocy_barcode, r)>>
        IN  IF send_raises(r) \/ raise_for_status_raises(r) \/ json_raises(r)
            THEN Outcome(Return(PyDict([error |-> exc_text(transport_exc(r))])), reqs, 1)
            ELSE Outcome(Return(r.body), reqs, 0)

\* lines 228-237 of create_product, entered with the product the try block
\* or its except clause produced
attach_barcode(product_data, product, r_bar) ==
    IF Truthy(product) /\ "barcode" \in DOMAIN product_data
    THEN IF product.t # "dict" THEN Outcome(Raise("TypeError"), <<>>, 0)
         ELSE IF ~dict_has(product, "id") THEN Outcome(Raise("KeyError"), <<>>, 0)
         ELSE
         LET added == add_barcode_to_product(product.v["id"], product_data.barcode,
                                             [note |-> PyStr(product_data.name)], r_bar)
             barcode_response == added.res.val
         IN  IF added.res.kind = "raise" THEN added
             ELSE IF barcode_response.t \in {"None", "num"}   \* 'error' in <not a container>
             THEN Outcome(Raise("TypeError"), added.reqs, added.errs)
             ELSE IF barcode_response.t = "dict" /\ dict_has(barcode_response, "error")
             THEN Outcome(Return(PyDict([error |-> barcode_response.v["error"]])),
                          added.reqs, added.errs)
             ELSE Outcome(Return(PyOr(product, PyNone)), added.reqs, added.errs)
    ELSE Outcome(Return(PyOr(product, PyNone)), <<>>, 0)

create_product(product_data, r_post, r_get, r_all, r_bar) ==
    LET grocy_product ==
            [name |-> PyStr(product_data.name),
             description |-> arg_get(product_data, "description", PyStr(<<>>)),
             product_group_id |-> arg_get(product_data, "product_group_id", PyNone),
             location_id |-> arg_get(product_data, "location_id", PyNone),
             qu_id_purchase |-> arg_get(product_data, "qu_id_purchase", PyNone),
             qu_id_stock |-> arg_get(product_data, "qu_id_stock", PyNone),
             treat_opened_as_out_of_stock |-> arg_get(product_data, "out_of_stock_default", FALSE)]
        post == <<Request("POST", <<"objects/products">>, grocy_product, r_post)>>
        \* requests.post raises, or response.json() raises, or its value has
        \* no get method; the status is not checked except against 400
        try_raises == send_raises(r_post) \/ json_raises(r_post) \/ r_post.body.t # "dict"
    IN  IF ~try_raises /\ r_post.status = 400
        THEN Outcome(Return(PyDict([error |-> dict_get(r_post.body, "error")])), post, 1)
        ELSE
        LET lookup == IF try_raises
                      THEN LET byname == get_product_by_name(product_data.name, r_all)
                           IN  Outcome(byname.res, byname.reqs, byname.errs + 1)
                      ELSE get_product(dict_get(r_post.body, "created_object_id"), r_get)
        IN  IF lookup.res.kind = "raise"
            THEN Outcome(lookup.res, post \o lookup.reqs, lookup.errs)
            ELSE LET rest == attach_barcode(product_data, lookup.res.val, r_bar)
                 IN  Outcome(rest.res, post \o lookup.reqs \o rest.reqs,
                             lookup.errs + rest.errs)

add_purchase(purchase_data, today, r_details, r_post) ==
    LET details == get_product_details(purchase_data.product_id, r_details)
        product_data == details.res.val
        key == "qu_conversion_factor_purchase_to_stock"
    IN  IF product_data.t # "dict" THEN Outcome(Raise("TypeError"), details.reqs, details.errs)
        ELSE IF ~dict_has(product_data, key)
        THEN Outcome(Raise("KeyError"), details.reqs, details.errs)
        ELSE IF product_data.v[key].v = 0
        THEN Outcome(Raise("ZeroDivisionError"), details.reqs, details.errs)
        ELSE
        LET factor == product_data.v[key].v
            grocy_purchase ==
                [amount |-> purchase_data.amount * factor,
                 transaction_type |-> "purchase",
                 best_before_date |-> today + purchase_data.days_out,
                 \* price / factor, kept as an exact fraction
                 price |-> [num |-> arg_get(purchase_data, "price", 0), den |-> factor],
                 shopping_location_id |-> purchase_data.shopping_location_id]
            reqs == details.reqs \o
                    <<Request("POST", <<"stock/products", purchase_data.product_id, "add">>,
                              grocy_purchase, r_post)>>
        IN  IF send_raises(r_post) \/ raise_for_status_raises(r_post) \/ json_raises(r_post)
            THEN Outcome(Return(PyDict([error |-> exc_text(transport_exc(r_post))])),
                         reqs, details.errs + 1)
            ELSE Outcome(Return(r_post.body), reqs, details.errs)

RECURSIVE scan_conversions_last_match(_, _, _, _, _)
\* the loop keeping the last matching entry instead of returning at the first
scan_conversions_last_match(conversions, purchase_id, stock_id, amount, i) ==
    IF i > Len(conversions) THEN Return(PyNum(amount))
    ELSE LET conversion == conversions[i]
             later == scan_conversions_last_match(conversions, purchase_id, stock_id,
                                                  amount, i + 1)
         IN  IF /\ PyEq(conversion.v["from_qu_id"], PyNum(purchase_id))
                /\ PyEq(conversion.v["to_qu_id"], PyNum(stock_id))
                /\ later = Return(PyNum(amount))
             THEN Return(PyNum(amount * conversion.v["factor"].v))
             ELSE later

RECURSIVE scan_conversions(_, _, _, _, _)
\* the for loop of convert_purchase_quantities_to_stock from the i-th entry on
scan_conversions(conversions, purchase_id, stock_id, amount, i) ==
    IF i > Len(conversions) THEN Return(PyNum(amount))
    ELSE LET conversion == conversions[i]
         IN  IF conversion.t # "dict" THEN Raise("TypeError")
             ELSE IF ~dict_has(conversion, "from_qu_id") THEN Raise("KeyError")
             ELSE IF ~PyEq(conversion.v["from_qu_id"], PyNum(purchase_id))
             THEN scan_conversions(conversions, purchase_id, stock_id, amount, i + 1)
             ELSE IF ~dict_has(conversion, "to_qu_id") THEN Raise("KeyError")
             ELSE IF ~PyEq(conversion.v["to_qu_id"], PyNum(stock_id))
             THEN scan_conversions(conversions, purchase_id, stock_id, amount, i + 1)
             ELSE IF ~dict_has(conversion, "factor") THEN Raise("KeyError")
             ELSE Return(PyNum(amount * conversion.v["factor"].v))

convert_purchase_quantities_to_stock(purchase_id, stock_id, amount, r) ==
    LET fetched == get_quantity_unit_conversions(r)
        conversions == fetched.res.val
        looped == CASE conversions.t = "list" ->
                          scan_conversions(conversions.v, purchase_id, stock_id, amount, 1)
                    [] conversions.t = "dict" ->
                          IF DOMAIN conversions.v = {} THEN Return(PyNum(amount))
                          ELSE Raise("TypeError")
                    [] OTHER -> Raise("TypeError")
    IN  IF looped.kind = "raise"
        THEN Outcome(Return(PyDict([error |-> exc_text(looped.val.v)])),
                     fetched.reqs, fetched.errs + 1)
        ELSE Outcome(looped, fetched.reqs, fetched.errs)

----------------------------------------------------------------------------
(* What the remote system may answer, and the arguments of the calls        *)

RemoteMessage == PyStr(<<"b", "a", "d">>)
ErrorBody == PyDict([error |-> RemoteMessage])

\* a request that fails: no answer, an error status, or a body that is not JSON
Failures == {NoAnswer, Answer(404, ErrorBody), Answer(500, ErrorBody), Answer(200, Malformed)}

Names == {<<"t", "e", "a">>, <<"j", "a", "m">>}
Ids == 1..2
Product(id, name) == PyDict([id |-> PyNum(id), name |-> PyStr(name)])
Products == {Product(id, name) : id \in Ids, name \in Names}

SeqsUpTo(S, n) == UNION {[1..k -> S] : k \in 0..n}

\* answers to the GET of one object, and to the GET of a list of objects
ObjectAnswers == Failures \cup {Answer(200, p) : p \in Products} \cup {Answer(200, EmptyDict)}
ListAnswers == Failures \cup {Answer(200, PyList(l)) : l \in SeqsUpTo(Products, MaxProducts)}

Units == 1..2
Factors == 2..3
Amounts == {4, 5}
Conversion(from, to, factor) ==
    PyDict([from_qu_id |-> PyNum(from), to_qu_id |-> PyNum(to), factor |-> PyNum(factor)])
Conversions == {Conversion(f, t, x) : f \in Units, t \in Units, x \in Factors}
ConversionAnswers ==
    Failures \cup {Answer(200, PyList(l)) : l \in SeqsUpTo(Conversions, MaxTable)}

\* answers to POST objects/products
CreateAnswers ==
    {NoAnswer,
     Answer(200, PyDict([created_object_id |-> PyNum(1)])),
     Answer(200, Malformed),
     Answer(400, ErrorBody),
     Answer(400, EmptyDict),
     Answer(400, Malformed),
     Answer(500, ErrorBody),
     Answer(500, Malformed)}

\* answers to POST objects/product_barcodes and to POST stock/products/<id>/add
WriteAnswers ==
    {NoAnswer,
     Answer(200, PyDict([created_object_id |-> PyNum(7)])),
     Answer(400, ErrorBody),
     Answer(200, Malformed)}

\* answers to GET stock/products/<id>
DetailsAnswers ==
    Failures \cup
    {Answer(200, PyDict([qu_conversion_factor_purchase_to_stock |-> PyNum(f)])) : f \in 1..2}

\* barcodes given to the methods that issue requests: a 10-digit receipt
\* code, a full UPC-A code, a code that is not numeric and a code of digits
\* that are not decimal digits
ReceiptCode == SubSeq(Reference, 2, 11)
\* ten characters that str.isdigit() accepts and int() rejects
SuperCode == [k \in 1..10 |-> SuperTwo]
Barcodes == {ReceiptCode, Reference, <<"a", "3", "a">>, SuperCode}

ProductData ==
    {[name |-> n] : n \in Names} \cup {[name |-> n, barcode |-> b] : n \in Names, b \in Barcodes}

PurchaseData ==
    {[product_id |-> 1, amount |-> a, days_out |-> 3, shopping_location_id |-> 1] :
        a \in Amounts}
    \cup
    {[product_id |-> 1, amount |-> a, days_out |-> 3, shopping_location_id |-> 1, price |-> 6] :
        a \in Amounts}

Days == 100..101

----------------------------------------------------------------------------

Init ==
    /\ op = "none"
    /\ args = <<>>
    /\ result = Return(PyNone)
    /\ requests = <<>>
    /\ errors = 0

\* a call of a method that issues no request and logs nothing
PureCall(name, a, r) ==
    /\ op' = name
    /\ args' = a
    /\ result' = r
    /\ requests' = <<>>
    /\ errors' = 0

CalculateUpcCheckDigit ==
    /\ op = "none"
    /\ \E code \in BarcodeStrings :
          PureCall("calculate_upc_check_digit", <<code>>, calculate_upc_check_digit(code))

BuildUpcFromReceipt ==
    /\ op = "none"
    /\ \E code \in BarcodeStrings :
          PureCall("build_upc_from_receipt", <<code>>, build_upc_from_receipt(code))

NormalizeReceiptBarcode ==
    /\ op = "none"
    /\ \E code \in BarcodeStrings :
          PureCall("normalize_receipt_barcode", <<code>>, normalize_receipt_barcode(code))

\* a call of a method that issues requests
Call(name, a, o) ==
    /\ op' = name
    /\ args' = a
    /\ result' = o.res
    /\ requests' = o.reqs
    /\ errors' = o.errs

FindProductByBarcode ==
    /\ op = "none"
    /\ \E barcode \in Barcodes, r \in ObjectAnswers :
          Call("find_product_by_barcode", <<barcode>>, find_product_by_barcode(barcode, r))

ProductsForGroup ==
    /\ op = "none"
    /\ \E g \in Ids, r \in ListAnswers :
          Call("products_for_group", <<g>>, products_for_group(g, r))

GetProductCategories ==
    /\ op = "none"
    /\ \E r \in ListAnswers :
          Call("get_product_categories", <<>>, get_product_categories(r))

GetLocations ==
    /\ op = "none"
    /\ \E r \in ListAnswers : Call("get_locations", <<>>, get_locations(r))

GetQuantityUnits ==
    /\ op = "none"
    /\ \E r \in ListAnswers : Call("get_quantity_units", <<>>, get_quantity_units(r))

GetShoppingLocations ==
    /\ op = "none"
    /\ \E r \in ListAnswers : Call("get_shopping_locations", <<>>, get_shopping_locations(r))

ExternalLookup ==
    /\ op = "none"
    /\ \E barcode \in Barcodes, r \in ObjectAnswers :
          Call("external_lookup", <<barcode>>, external_lookup(barcode, r))

GetProduct ==
    /\ op = "none"
    /\ \E id \in Ids, r \in ObjectAnswers :
          Call("get_product", <<id>>, get_product(PyNum(id), r))

GetProductDetails ==
    /\ op = "none"
    /\ \E id \in Ids, r \in DetailsAnswers :
          Call("get_product_details", <<id>>, get_product_details(id, r))

GetAllProducts ==
    /\ op = "none"
    /\ \E r \in ListAnswers : Call("get_all_products", <<>>, get_all_products(r))

GetProductByName ==
    /\ op = "none"
    /\ \E name \in Names, r \in ListAnswers :
          Call("get_product_by_name", <<name>>, get_product_by_name(name, r))

GetQuantityUnitConversions ==
    /\ op = "none"
    /\ \E r \in ConversionAnswers :
          Call("get_quantity_unit_conversions", <<>>, get_quantity_unit_conversions(r))

CreateProduct ==
    /\ op = "none"
    /\ \E product_data \in ProductData, r_post \in CreateAnswers, r_get \in ObjectAnswers,
          r_all \in ListAnswers, r_bar \in WriteAnswers :
          Call("create_product", <<product_data>>,
               create_product(product_data, r_post, r_get, r_all, r_bar))

AddBarcodeToProduct ==
    /\ op = "none"
    /\ \E id \in Ids, barcode \in BarcodeStrings, r \in WriteAnswers :
          Call("add_barcode_to_product", <<id, barcode>>,
               add_barcode_to_product(PyNum(id), barcode, [note |-> PyStr(<<"n">>)], r))

AddPurchase ==
    /\ op = "none"
    /\ \E purchase_data \in PurchaseData, today \in Days,
          r_details \in DetailsAnswers, r_post \in WriteAnswers :
          Call("add_purchase", <<purchase_data>>,
               add_purchase(purchase_data, today, r_details, r_post))

ConvertPurchaseQuantitiesToStock ==
    /\ op = "none"
    /\ \E purchase_id \in Units, stock_id \in Units, amount \in Amounts,
          r \in ConversionAnswers :
          Call("convert_purchase_quantities_to_stock", <<purchase_id, stock_id, amount>>,
               convert_purchase_quantities_to_stock(purchase_id, stock_id, amount, r))

Next ==
    \/ CalculateUpcCheckDigit
    \/ BuildUpcFromReceipt
    \/ NormalizeReceiptBarcode
    \/ FindProductByBarcode
    \/ ProductsForGroup
    \/ GetProductCategories
    \/ GetLocations
    \/ GetQuantityUnits
    \/ GetShoppingLocations
    \/ ExternalLookup
    \/ GetProduct
    \/ GetProductDetails
    \/ GetAllProducts
    \/ GetProductByName
    \/ GetQuantityUnitConversions
    \/ CreateProduct
    \/ AddBarcodeToProduct
    \/ AddPurchase
    \/ ConvertPurchaseQuantitiesToStock

Spec == Init /\ [][Next]_vars

----------------------------------------------------------------------------
(* Properties                                                               *)

\* the value of a decimal digit
DigitValue(c) ==
    CASE c = "0" -> 0 [] c = "1" -> 1 [] c = "2" -> 2 [] c = "3" -> 3 [] c = "4" -> 4
      [] c = "5" -> 5 [] c = "6" -> 6 [] c = "7" -> 7 [] c = "8" -> 8 [] c = "9" -> 9
      [] c = ArabicThree -> 3

\* s is a string of exactly n decimal digits
IsDecimalString(s, n) == Len(s) = n /\ \A i \in 1..n : s[i] \in DecimalChars

RECURSIVE DigitSum(_, _)
\* the sum of the digits of code at the positions in S
DigitSum(code, S) ==
    IF S = {} THEN 0
    ELSE LET i == CHOOSE k \in S : TRUE
         IN  DigitValue(code[i]) + DigitSum(code, S \ {i})

\* W: digits at even 0-based index weighted by 3, the others by 1
WeightedDigits(code) ==
    3 * DigitSum(code, {i \in 1..Len(code) : (i - 1) % 2 = 0})
    + DigitSum(code, {i \in 1..Len(code) : (i - 1) % 2 = 1})

\* the request failed at the transport level
Failed(r) == r.status = 0 \/ r.status < 200 \/ r.status >= 300 \/ r.body.t = "malformed"

\* C1: for 11 decimal digits calculate_upc_check_digit returns one decimal
\* digit c with (W + c) mod 10 = 0, that is c = (10 - W mod 10) mod 10
C1_CheckDigit ==
    (op = "calculate_upc_check_digit" /\ IsDecimalString(args[1], 11)) =>
        /\ result.kind = "return"
        /\ result.val.t = "str"
        /\ Len(result.val.v) = 1
        /\ result.val.v[1] \in AsciiDigitSet
        /\ (WeightedDigits(args[1]) + DigitValue(result.val.v[1])) % 10 = 0
        /\ DigitValue(result.val.v[1]) = (10 - (WeightedDigits(args[1]) % 10)) % 10

\* the reference vector: calculate_upc_check_digit("03600029145") = "2"
C1_Witness ==
    /\ op = "calculate_upc_check_digit"
    /\ args[1] = SubSeq(Reference, 1, 11)
    /\ result = Return(PyStr(<<"2">>))

\* C2: for 10 decimal digits r, build_upc_from_receipt(r) has length 12,
\* starts with "0", continues with r and ends with the check digit of its
\* first 11 characters
C2_BuildUpc ==
    (op = "build_upc_from_receipt" /\ IsDecimalString(args[1], 10)) =>
        /\ result.kind = "return"
        /\ result.val.t = "str"
        /\ Len(result.val.v) = 12
        /\ result.val.v[1] = "0"
        /\ SubSeq(result.val.v, 2, 11) = args[1]
        /\ calculate_upc_check_digit(SubSeq(result.val.v, 1, 11))
               = Return(PyStr(<<result.val.v[12]>>))

C2_Witness ==
    /\ op = "build_upc_from_receipt"
    /\ IsDecimalString(args[1], 10)
    /\ args[1][1] = "9"
    /\ result.kind = "return"
    /\ Len(result.val.v) = 12

\* C3: normalize_receipt_barcode never fails; it returns the derived UPC-A
\* for 10 decimal digits and the code unchanged otherwise
C3_NormalizeTotal ==
    (op = "normalize_receipt_barcode") =>
        /\ result.kind = "return"
        /\ result = IF IsDecimalString(args[1], 10)
                    THEN build_upc_from_receipt(args[1])
                    ELSE Return(PyStr(args[1]))

\* C4: calculate_upc_check_digit fails with ValueError on every string that
\* is not 11 decimal digits, build_upc_from_receipt on every string that is
\* not 10 decimal digits
C4_InvalidInput ==
    /\ (op = "calculate_upc_check_digit" /\ ~IsDecimalString(args[1], 11))
           => result = Raise("ValueError")
    /\ (op = "build_upc_from_receipt" /\ ~IsDecimalString(args[1], 10))
           => result = Raise("ValueError")

\* calculate_upc_check_digit rejected 12 decimal digits
C4_Witness ==
    /\ op = "calculate_upc_check_digit"
    /\ IsDecimalString(args[1], 12)
    /\ result = Raise("ValueError")

\* C5: with the table fetched, the result is the amount times the factor of
\* the first entry for the unit pair, or the amount when there is none
C5_FirstMatch ==
    (op = "convert_purchase_quantities_to_stock" /\ ~Failed(requests[1].resp)) =>
        LET table == requests[1].resp.body.v
            matches == {i \in 1..Len(table) :
                           /\ table[i].v["from_qu_id"].v = args[1]
                           /\ table[i].v["to_qu_id"].v = args[2]}
            first == CHOOSE i \in matches : \A j \in matches : i <= j
        IN  result = Return(PyNum(IF matches = {} THEN args[3]
                                  ELSE args[3] * table[first].v["factor"].v))

\* two entries for the requested pair with different factors: the first won
C5_Witness ==
    /\ op = "convert_purchase_quantities_to_stock"
    /\ ~Failed(requests[1].resp)
    /\ LET table == requests[1].resp.body.v
       IN  /\ Len(table) = 2
           /\ table[1].v["from_qu_id"].v = args[1] /\ table[1].v["to_qu_id"].v = args[2]
           /\ table[2].v["from_qu_id"].v = args[1] /\ table[2].v["to_qu_id"].v = args[2]
           /\ table[1].v["factor"] # table[2].v["factor"]
           /\ result = Return(PyNum(args[3] * table[1].v["factor"].v))

PureOps == {"none", "calculate_upc_check_digit", "build_upc_from_receipt",
            "normalize_receipt_barcode"}

\* C6: no method lets an exception reach the caller when a request it
\* issues fails at the transport level
C6_NoTransportException ==
    (op \notin PureOps /\ \E i \in 1..Len(requests) : Failed(requests[i].resp)) =>
        result.kind = "return"

ItemLookups == {"find_product_by_barcode", "get_product", "get_product_details",
                "get_product_by_name", "external_lookup"}
ListLookups == {"products_for_group", "get_all_products", "get_product_categories",
                "get_locations", "get_quantity_units", "get_shopping_locations",
                "get_quantity_unit_conversions"}

\* C7: a read whose GET fails returns None if it looks up one item and an
\* empty list if it looks up a list
C7_ReadSentinels ==
    /\ (op \in ItemLookups /\ Failed(requests[1].resp)) => result = Return(PyNone)
    /\ (op \in ListLookups /\ Failed(requests[1].resp)) => result = Return(PyList(<<>>))

\* C8: when the fetch of the conversion table fails the conversion returns
\* an error object
C8_ConversionFetchError ==
    (op = "convert_purchase_quantities_to_stock" /\ Failed(requests[1].resp)) =>
        /\ result.kind = "return"
        /\ result.val.t = "dict"
        /\ dict_has(result.val, "error")

\* C9: a create request answered with 400 ends create_product with an error
\* result carrying the remote message, and no further request
C9_ValidationError ==
    (op = "create_product" /\ requests[1].resp.status = 400) =>
        /\ Len(requests) = 1
        /\ result.kind = "return"
        /\ result.val.t = "dict"
        /\ dict_has(result.val, "error")
        /\ requests[1].resp.body.t = "dict"
        /\ result.val.v["error"] = dict_get(requests[1].resp.body, "error")

\* the GET of the full product list
IsAllProducts(q) == q.method = "GET" /\ Len(q.url) = 1 /\ q.url[1] = "objects/products"

\* C10: a create request that fails otherwise than by a 400 is followed by
\* one lookup by name in the full product list, whose first match is the
\* resulting product
C10_NameFallback ==
    (op = "create_product" /\ Failed(requests[1].resp) /\ requests[1].resp.status # 400) =>
        /\ Len(requests) >= 2
        /\ IsAllProducts(requests[2])
        /\ Cardinality({i \in 1..Len(requests) : IsAllProducts(requests[i])}) = 1
        /\ (~Failed(requests[2].resp) /\ "barcode" \notin DOMAIN args[1]) =>
               LET products == requests[2].resp.body.v
                   named == {i \in 1..Len(products) :
                                products[i].v["name"].v = args[1].name}
               IN  result = Return(IF named = {} THEN PyNone
                                   ELSE products[CHOOSE i \in named :
                                                     \A j \in named : i <= j])

\* the barcode-attach request
IsAttach(q) == q.method = "POST" /\ q.url[1] = "objects/product_barcodes"

\* the product create_product resolved, read off the answer to its second
\* request: the product fetched by id, or the first product of the full
\* list with the requested name; None when there is none
ResolvedProduct ==
    IF Len(requests) < 2 \/ Failed(requests[2].resp) THEN PyNone
    ELSE IF IsAllProducts(requests[2])
    THEN LET products == requests[2].resp.body.v
             named == {i \in 1..Len(products) : products[i].v["name"].v = args[1].name}
         IN  IF named = {} THEN PyNone
             ELSE products[CHOOSE i \in named : \A j \in named : i <= j]
    ELSE requests[2].resp.body

\* create_product went past the create request: it was not ended by a 400
\* validation error
PastCreate ==
    /\ op = "create_product"
    /\ ~(requests[1].resp.status = 400 /\ requests[1].resp.body.t = "dict")

\* C11: create_product issues the barcode-attach request exactly when a
\* product was resolved and a barcode supplied, once, after the resolution
\* and with the normalized barcode; it returns the attachment's error if the
\* attachment reported one and the resolved product otherwise, and None,
\* without any attach request, when no product was resolved
C11_BarcodeAttach ==
    PastCreate =>
        LET attaches == {i \in 1..Len(requests) : IsAttach(requests[i])}
            resolved == Truthy(ResolvedProduct)
            supplied == "barcode" \in DOMAIN args[1]
        IN  /\ (attaches # {}) <=> (resolved /\ supplied)
            /\ Cardinality(attaches) <= 1
            /\ \A i \in attaches :
                  /\ i = 3
                  /\ Return(requests[i].data.barcode) = normalize_receipt_barcode(args[1].barcode)
            /\ IF ~resolved THEN result = Return(PyNone)
               ELSE IF \E i \in attaches : Failed(requests[i].resp)
               THEN /\ result.kind = "return"
                    /\ result.val.t = "dict"
                    /\ DOMAIN result.val.v = {"error"}
               ELSE result = Return(ResolvedProduct)

=============================================================================
